---- MODULE Spec2Model ----
(***************************************************************************)
(* Arc-eager transition parser (src/arcEager.py): the ArcState transition  *)
(* system, its legality predicate, the static oracle (get_next_action),    *)
(* the cost model (action_cost) and the __main__ parse loop.               *)
(***************************************************************************)
EXTENDS Integers, Sequences, FiniteSets, TLC

\* Largest number of real (non-root) tokens of a sentence in the small model.
MaxTokens == 3

\* Number of real tokens of the single long sentence of SpecLong.
LongTokens == 1002

\* class ArcState: action codes
ARC_LEFT == 1
ARC_RIGHT == 2
SHIFT == 3
REDUCE == 4

\* ArcState.ACTIONS (ACTIONS is a reserved word of TLA+)
AllActions == {ARC_LEFT, ARC_RIGHT, SHIFT, REDUCE}

\* the value action_cost returns for an action valid_action rejects
INFEASIBLE == 999

VARIABLES graph, buffer, stack, relations, steps, last, raised, pc,
          heap, objs, snaps

\* heap, objs and snaps are the object-level view of SpecHeap: the list
\* objects in memory, the ArcState objects returned so far (each a record of
\* list addresses) and the content each had when it was returned.  The other
\* specifications work on values and leave them empty.
heapvars == <<heap, objs, snaps>>

vars == <<graph, buffer, stack, relations, steps, last, raised, pc, heapvars>>

----------------------------------------------------------------------------
\* Data

\* class ArcNode: only the id takes part in the transition system
ArcNode(id) == [id |-> id]

\* ArcState.__init__
ArcState(b, s, r) == [buffer |-> b, stack |-> s, relations |-> r]

\* the configuration the variables hold
self == ArcState(buffer, stack, relations)

\* networkx DiGraph.has_edge on the gold graph g (a set of <<head, dep>>)
has_edge(g, u, v) == <<u, v>> \in g

\* the arcs of a configuration, as a set
Arcs(st) == {st.relations[i] : i \in 1..Len(st.relations)}

\* a call either returns a new ArcState or raises
Return(st) == [exc |-> FALSE, state |-> st]
Raise(st) == [exc |-> TRUE, state |-> st]

----------------------------------------------------------------------------
\* Transitions: each returns a fresh ArcState, or raises

\* arc_left that pops new_buffer in place of new_stack
arc_left_pops_buffer(st) ==
    IF Len(st.stack) < 1 \/ Len(st.buffer) < 1
    THEN Raise(st)
    ELSE LET s == st.stack[1]
             b == st.buffer[1]
         IN Return(ArcState(Tail(st.buffer), st.stack,
                            Append(st.relations, <<b.id, s.id>>)))

arc_left(st) ==
    IF Len(st.stack) < 1 \/ Len(st.buffer) < 1
    THEN Raise(st)
    ELSE LET s == st.stack[1]
             b == st.buffer[1]
         IN Return(ArcState(st.buffer, Tail(st.stack),
                            Append(st.relations, <<b.id, s.id>>)))

\* arc_right with the arc written dependent first
arc_right_reversed(st) ==
    IF Len(st.stack) < 1 \/ Len(st.buffer) < 1
    THEN Raise(st)
    ELSE LET s == st.stack[1]
             b == st.buffer[1]
         IN Return(ArcState(Tail(st.buffer), <<b>> \o st.stack,
                            Append(st.relations, <<b.id, s.id>>)))

arc_right(st) ==
    IF Len(st.stack) < 1 \/ Len(st.buffer) < 1
    THEN Raise(st)
    ELSE LET s == st.stack[1]
             b == st.buffer[1]
         IN Return(ArcState(Tail(st.buffer), <<b>> \o st.stack,
                            Append(st.relations, <<s.id, b.id>>)))

\* shift that puts the token at the far end of the stack list (append in
\* place of insert(0, w))
shift_appends(st) ==
    IF Len(st.buffer) = 0
    THEN Raise(st)
    ELSE Return(ArcState(Tail(st.buffer), Append(st.stack, st.buffer[1]),
                         st.relations))

\* shift that reads the buffer head without removing it (buffer[0] in place
\* of pop(0))
shift_keeps_head(st) ==
    IF Len(st.buffer) = 0
    THEN Raise(st)
    ELSE Return(ArcState(st.buffer, <<st.buffer[1]>> \o st.stack,
                         st.relations))

shift(st) ==
    IF Len(st.buffer) = 0
    THEN Raise(st)
    ELSE Return(ArcState(Tail(st.buffer), <<st.buffer[1]>> \o st.stack,
                         st.relations))

\* reduce that starts the result's relations from an empty list
reduce_drops_relations(st) ==
    IF Len(st.stack) = 0
    THEN Raise(st)
    ELSE Return(ArcState(st.buffer, Tail(st.stack), <<>>))

reduce(st) ==
    IF Len(st.stack) = 0
    THEN Raise(st)
    ELSE Return(ArcState(st.buffer, Tail(st.stack), st.relations))

do_action(st, action) ==
    IF action = ARC_LEFT THEN arc_left(st)
    ELSE IF action = ARC_RIGHT THEN arc_right(st)
    ELSE IF action = SHIFT THEN shift(st)
    ELSE IF action = REDUCE THEN reduce(st)
    ELSE Raise(st)

done(st) == Len(st.buffer) = 0 /\ Len(st.stack) = 1

----------------------------------------------------------------------------
\* Legality

\* "l[1] == self.stack[0]": an int compared with an ArcNode.  ArcNode
\* defines no __eq__, so Python falls back to identity and the result is
\* False whatever the id of the node is.
IntEqualsNode(x, node) == FALSE

\* valid_action with "len(self.buffer) <= 1" in the SHIFT test
valid_action_shift_needs_two(st, action) ==
    /\ action = ARC_LEFT =>
         /\ ~(Len(st.stack) < 1 \/ Len(st.buffer) < 1)
         /\ st.stack[1].id # 0
         /\ \A i \in 1..Len(st.relations) :
               ~IntEqualsNode(st.relations[i][2], st.stack[1])
    /\ action = ARC_RIGHT => ~(Len(st.stack) < 1 \/ Len(st.buffer) < 1)
    /\ action = SHIFT => Len(st.buffer) > 1
    /\ action = REDUCE => Len(st.stack) # 0

\* valid_action without the "Cannot be the root" test
valid_action_no_root_test(st, action) ==
    /\ action = ARC_LEFT =>
         /\ ~(Len(st.stack) < 1 \/ Len(st.buffer) < 1)
         /\ \A i \in 1..Len(st.relations) :
               ~IntEqualsNode(st.relations[i][2], st.stack[1])
    /\ action = ARC_RIGHT => ~(Len(st.stack) < 1 \/ Len(st.buffer) < 1)
    /\ action = SHIFT => Len(st.buffer) # 0
    /\ action = REDUCE => Len(st.stack) # 0

valid_action(st, action) ==
    /\ action = ARC_LEFT =>
         /\ ~(Len(st.stack) < 1 \/ Len(st.buffer) < 1)
         /\ st.stack[1].id # 0
         /\ \A i \in 1..Len(st.relations) :
               ~IntEqualsNode(st.relations[i][2], st.stack[1])
    /\ action = ARC_RIGHT => ~(Len(st.stack) < 1 \/ Len(st.buffer) < 1)
    /\ action = SHIFT => Len(st.buffer) # 0
    /\ action = REDUCE => Len(st.stack) # 0

----------------------------------------------------------------------------
\* Static oracle

\* get_next_action without the scan over k < s.id
get_next_action_no_scan(st, g) ==
    IF Len(st.stack) > 0 /\ Len(st.buffer) > 0
    THEN LET s == st.stack[1]
             b == st.buffer[1]
         IN IF has_edge(g, b.id, s.id) THEN ARC_LEFT
            ELSE IF has_edge(g, s.id, b.id) THEN ARC_RIGHT
            ELSE SHIFT
    ELSE IF Len(st.stack) > 1 THEN REDUCE
    ELSE SHIFT

\* get_next_action with "len(self.stack) > 2" in place of "> 1" in the elif
get_next_action_keep_two(st, g) ==
    IF Len(st.stack) > 0 /\ Len(st.buffer) > 0
    THEN LET s == st.stack[1]
             b == st.buffer[1]
         IN IF has_edge(g, b.id, s.id) THEN ARC_LEFT
            ELSE IF has_edge(g, s.id, b.id) THEN ARC_RIGHT
            ELSE IF \E k \in 0..(s.id - 1) :
                        has_edge(g, k, b.id) \/ has_edge(g, b.id, k)
                 THEN REDUCE
                 ELSE SHIFT
    ELSE IF Len(st.stack) > 2 THEN REDUCE
    ELSE SHIFT

\* get_next_action with the "elif len(self.stack) > 1" also reached when
\* none of the edge tests of the first branch returns
get_next_action_falls_through(st, g) ==
    IF Len(st.stack) > 0 /\ Len(st.buffer) > 0 /\
       (\/ has_edge(g, st.buffer[1].id, st.stack[1].id)
        \/ has_edge(g, st.stack[1].id, st.buffer[1].id)
        \/ \E k \in 0..(st.stack[1].id - 1) :
              has_edge(g, k, st.buffer[1].id) \/ has_edge(g, st.buffer[1].id, k))
    THEN LET s == st.stack[1]
             b == st.buffer[1]
         IN IF has_edge(g, b.id, s.id) THEN ARC_LEFT
            ELSE IF has_edge(g, s.id, b.id) THEN ARC_RIGHT
            ELSE REDUCE
    ELSE IF Len(st.stack) > 1 THEN REDUCE
    ELSE SHIFT

get_next_action(st, g) ==
    IF Len(st.stack) > 0 /\ Len(st.buffer) > 0
    THEN LET s == st.stack[1]
             b == st.buffer[1]
         IN IF has_edge(g, b.id, s.id) THEN ARC_LEFT
            ELSE IF has_edge(g, s.id, b.id) THEN ARC_RIGHT
            ELSE IF \E k \in 0..(s.id - 1) :
                        has_edge(g, k, b.id) \/ has_edge(g, b.id, k)
                 THEN REDUCE
                 ELSE SHIFT
    ELSE IF Len(st.stack) > 1 THEN REDUCE
    ELSE SHIFT

----------------------------------------------------------------------------
\* Cost model

\* A "for k in list: if ...: loss += 1" loop adds one for every position of
\* the list whose element passes the test, hence the counts over indices.

cost_left(st, g) ==
    LET b == st.buffer[1]
        s == st.stack[1]
        head_in_buffer ==
            \E i \in 1..Len(st.buffer) : has_edge(g, st.buffer[i].id, s.id)
        lost(k) == has_edge(g, k.id, s.id) \/ has_edge(g, s.id, k.id)
    IN IF has_edge(g, b.id, s.id) THEN 0
       ELSE IF ~head_in_buffer THEN 0
       ELSE Cardinality({i \in 1..Len(st.buffer) : lost(st.buffer[i])})

cost_right(st, g) ==
    LET b == st.buffer[1]
        s == st.stack[1]
        both == st.buffer \o st.stack
        head(k) == has_edge(g, k.id, b.id)
        dep(k) == has_edge(g, b.id, k.id)
    IN IF has_edge(g, s.id, b.id) THEN 0
       ELSE Cardinality({i \in 1..Len(both) : head(both[i])})
            + Cardinality({i \in 1..Len(st.stack) : dep(st.stack[i])})

cost_shift(st, g) ==
    LET b == st.buffer[1]
        lost(k) == has_edge(g, k.id, b.id) \/ has_edge(g, b.id, k.id)
    IN Cardinality({i \in 1..Len(st.stack) : lost(st.stack[i])})

cost_reduce(st, g) ==
    LET s == st.stack[1]
        lost(k) == has_edge(g, s.id, k.id)
    IN Cardinality({i \in 1..Len(st.buffer) : lost(st.buffer[i])})

action_cost(st, action, g) ==
    IF ~valid_action(st, action) THEN INFEASIBLE
    ELSE IF action = ARC_LEFT THEN cost_left(st, g)
    ELSE IF action = ARC_RIGHT THEN cost_right(st, g)
    ELSE IF action = SHIFT THEN cost_shift(st, g)
    ELSE cost_reduce(st, g)

----------------------------------------------------------------------------
\* Gold graphs and the initial configuration

\* iterCoNLL: node 0 is the root, every line adds node id and one edge
\* (head, id).  A graph is the set of its edges; it has one edge per real
\* token, so the number of real tokens is the number of edges.
GraphsOf(n) ==
    {{<<h[d], d>> : d \in 1..n} :
        h \in {f \in [1..n -> 0..n] : \A d \in 1..n : f[d] # d}}

Graphs == UNION {GraphsOf(n) : n \in 1..MaxTokens}

NumTokens(g) == Cardinality(g)

\* graph.nodes(): the root and the real tokens, in increasing id order
NodeList(g) == [i \in 1..(NumTokens(g) + 1) |-> ArcNode(i - 1)]

initialize_from_graph(g) == shift(ArcState(NodeList(g), <<>>, <<>>)).state

InitOn(g) ==
    /\ graph = g
    /\ buffer = initialize_from_graph(g).buffer
    /\ stack = initialize_from_graph(g).stack
    /\ relations = initialize_from_graph(g).relations
    /\ steps = 0
    /\ last = 0
    /\ raised = FALSE
    /\ pc = "while"
    /\ heap = <<>>
    /\ objs = <<>>
    /\ snaps = <<>>

Init == \E g \in Graphs : InitOn(g)

----------------------------------------------------------------------------
\* A caller applying actions without consulting valid_action

Call(action) ==
    LET r == do_action(self, action)
    IN /\ buffer' = r.state.buffer
       /\ stack' = r.state.stack
       /\ relations' = r.state.relations
       /\ raised' = r.exc
       /\ steps' = IF r.exc THEN steps ELSE steps + 1
       /\ last' = action
       /\ UNCHANGED <<graph, pc, heapvars>>

DoArcLeft == Call(ARC_LEFT)
DoArcRight == Call(ARC_RIGHT)
DoShift == Call(SHIFT)
DoReduce == Call(REDUCE)

Next == DoArcLeft \/ DoArcRight \/ DoShift \/ DoReduce

Spec == Init /\ [][Next]_vars

\* A caller that applies only the actions valid_action accepts

Checked(action) == valid_action(self, action) /\ Call(action)

ValidArcLeft == Checked(ARC_LEFT)
ValidArcRight == Checked(ARC_RIGHT)
ValidShift == Checked(SHIFT)
ValidReduce == Checked(REDUCE)

NextValid == ValidArcLeft \/ ValidArcRight \/ ValidShift \/ ValidReduce

SpecValid == Init /\ [][NextValid]_vars

----------------------------------------------------------------------------
\* The __main__ parse loop: follow get_next_action until done()

ParseStep ==
    /\ pc = "while"
    /\ ~done(self)
    /\ LET a == get_next_action(self, graph)
       IN IF valid_action(self, a)
          THEN LET r == do_action(self, a)
               IN /\ buffer' = r.state.buffer
                  /\ stack' = r.state.stack
                  /\ relations' = r.state.relations
                  /\ raised' = r.exc
                  /\ steps' = IF r.exc THEN steps ELSE steps + 1
                  /\ last' = a
                  /\ pc' = IF r.exc THEN "except" ELSE "while"
                  /\ UNCHANGED <<graph, heapvars>>
          ELSE /\ pc' = "break"
               /\ last' = a
               /\ UNCHANGED <<graph, buffer, stack, relations, steps, raised,
                              heapvars>>

ParseExit ==
    /\ pc = "while"
    /\ done(self)
    /\ pc' = "rows"
    /\ UNCHANGED <<graph, buffer, stack, relations, steps, last, raised,
                   heapvars>>

NextGold == ParseStep \/ ParseExit

SpecGold == Init /\ [][NextGold]_vars

\* the loop is sequential code: it keeps running while it can
SpecGoldFair == SpecGold /\ WF_vars(NextGold)

\* the head written for token id: the head of the first arc of relations
\* with dependent id, 0 if there is none
predicted_head(st, id) ==
    LET hits == {i \in 1..Len(st.relations) : st.relations[i][2] = id}
    IN IF hits = {} THEN 0
       ELSE st.relations[CHOOSE i \in hits : \A j \in hits : i <= j][1]

----------------------------------------------------------------------------
\* A sentence long enough for a count of lost edges to reach INFEASIBLE:
\* token 2 is the root's dependent and the head of every other token.

LongGraph == {<<2, 1>>, <<0, 2>>} \cup {<<2, k>> : k \in 3..LongTokens}

InitLong == InitOn(LongGraph)

SpecLong == InitLong /\ [][NextGold]_vars

----------------------------------------------------------------------------
\* Object level: the transitions as statements on list objects.  A heap is a
\* sequence of lists, an address an index into it, an ArcState object a
\* record of three addresses.

\* new_x = self.x: the new name refers to the receiver's own list
list_alias(h, a) == [heap |-> h, addr |-> a]

\* new_x = list(self.x): a fresh list with the same elements
list_copy(h, a) == [heap |-> Append(h, h[a]), addr |-> Len(h) + 1]

\* the configuration an object holds
Deref(h, o) == ArcState(h[o.buffer], h[o.stack], h[o.relations])

\* the three copies every transition starts with (new_buffer, new_stack,
\* new_rel)
Copies(h, o) ==
    LET c1 == list_copy(h, o.buffer)
        c2 == list_copy(c1.heap, o.stack)
        c3 == list_copy(c2.heap, o.relations)
    IN [heap |-> c3.heap,
        new |-> [buffer |-> c1.addr, stack |-> c2.addr,
                 relations |-> c3.addr]]

HeapReturn(h, o) == [exc |-> FALSE, heap |-> h, obj |-> o]
HeapRaise(h, o) == [exc |-> TRUE, heap |-> h, obj |-> o]

arc_left_heap(h, o) ==
    LET c == Copies(h, o)
        n == c.new
    IN IF Len(c.heap[o.stack]) < 1 \/ Len(c.heap[o.buffer]) < 1
       THEN HeapRaise(c.heap, o)
       ELSE LET s == c.heap[o.stack][1]
                b == c.heap[o.buffer][1]
                h1 == [c.heap EXCEPT ![n.relations] = Append(@, <<b.id, s.id>>)]
                h2 == [h1 EXCEPT ![n.stack] = Tail(@)]
            IN HeapReturn(h2, n)

arc_right_heap(h, o) ==
    LET c == Copies(h, o)
        n == c.new
    IN IF Len(c.heap[o.stack]) < 1 \/ Len(c.heap[o.buffer]) < 1
       THEN HeapRaise(c.heap, o)
       ELSE LET s == c.heap[o.stack][1]
                b == c.heap[o.buffer][1]
                h1 == [c.heap EXCEPT ![n.relations] = Append(@, <<s.id, b.id>>)]
                h2 == [h1 EXCEPT ![n.buffer] = Tail(@)]
                h3 == [h2 EXCEPT ![n.stack] = <<b>> \o @]
            IN HeapReturn(h3, n)

shift_heap(h, o) ==
    LET c == Copies(h, o)
        n == c.new
    IN IF Len(c.heap[o.buffer]) = 0
       THEN HeapRaise(c.heap, o)
       ELSE LET w == c.heap[n.buffer][1]
                h1 == [c.heap EXCEPT ![n.buffer] = Tail(@)]
                h2 == [h1 EXCEPT ![n.stack] = <<w>> \o @]
            IN HeapReturn(h2, n)

reduce_heap(h, o) ==
    LET c == Copies(h, o)
        n == c.new
    IN IF Len(c.heap[o.stack]) = 0
       THEN HeapRaise(c.heap, o)
       ELSE HeapReturn([c.heap EXCEPT ![n.stack] = Tail(@)], n)

do_action_heap(h, o, action) ==
    IF action = ARC_LEFT THEN arc_left_heap(h, o)
    ELSE IF action = ARC_RIGHT THEN arc_right_heap(h, o)
    ELSE IF action = SHIFT THEN shift_heap(h, o)
    ELSE IF action = REDUCE THEN reduce_heap(h, o)
    ELSE HeapRaise(h, o)

\* initialize_from_graph: the list b, two empty lists, and the object that
\* shift() returns for them
initialize_heap(g) ==
    shift_heap(<<NodeList(g), <<>>, <<>>>>,
               [buffer |-> 1, stack |-> 2, relations |-> 3])

\* No transition reads the gold graph, so one sentence of each length is
\* enough here: every token a dependent of the root.
FlatGraph(n) == {<<0, d>> : d \in 1..n}

InitHeap ==
    \E g \in {FlatGraph(n) : n \in 1..MaxTokens} :
        LET r == initialize_heap(g)
        IN /\ graph = g
           /\ heap = r.heap
           /\ objs = <<r.obj>>
           /\ snaps = <<Deref(r.heap, r.obj)>>
           /\ buffer = Deref(r.heap, r.obj).buffer
           /\ stack = Deref(r.heap, r.obj).stack
           /\ relations = Deref(r.heap, r.obj).relations
           /\ steps = 0
           /\ last = 0
           /\ raised = FALSE
           /\ pc = "while"

\* A caller that keeps every configuration it was given and calls do_action
\* on the newest one.  The lists a raising call allocated die with its
\* frame; whatever it did to the older lists stays.
HeapCall(action) ==
    LET cur == objs[Len(objs)]
        r == do_action_heap(heap, cur, action)
        h == IF r.exc THEN SubSeq(r.heap, 1, Len(heap)) ELSE r.heap
    IN /\ heap' = h
       /\ objs' = IF r.exc THEN objs ELSE Append(objs, r.obj)
       /\ snaps' = IF r.exc THEN snaps ELSE Append(snaps, Deref(h, r.obj))
       /\ buffer' = Deref(h, r.obj).buffer
       /\ stack' = Deref(h, r.obj).stack
       /\ relations' = Deref(h, r.obj).relations
       /\ raised' = r.exc
       /\ steps' = IF r.exc THEN steps ELSE steps + 1
       /\ last' = action
       /\ UNCHANGED <<graph, pc>>

HeapArcLeft == HeapCall(ARC_LEFT)
HeapArcRight == HeapCall(ARC_RIGHT)
HeapShift == HeapCall(SHIFT)
HeapReduce == HeapCall(REDUCE)

NextHeap == HeapArcLeft \/ HeapArcRight \/ HeapShift \/ HeapReduce

SpecHeap == InitHeap /\ [][NextHeap]_vars

----------------------------------------------------------------------------
\* A derivation by any actions valid_action accepts, stopped at the first
\* configuration where done() holds (the loop of __main__ with the choice
\* of the action left open).  The choice does not read the gold graph.

InitFlat == \E n \in 1..MaxTokens : InitOn(FlatGraph(n))

\* the caller of Spec on one sentence of each length: do_action and the
\* four transitions never read the gold graph
SpecCalls == InitFlat /\ [][Next]_vars

Derive(action) == ~done(self) /\ Checked(action)

DeriveArcLeft == Derive(ARC_LEFT)
DeriveArcRight == Derive(ARC_RIGHT)
DeriveShift == Derive(SHIFT)
DeriveReduce == Derive(REDUCE)

NextDerive == DeriveArcLeft \/ DeriveArcRight \/ DeriveShift \/ DeriveReduce

SpecDerive == InitFlat /\ [][NextDerive]_vars

\* the derivation goes on while some action is valid
SpecDeriveFair == SpecDerive /\ WF_vars(NextDerive)

----------------------------------------------------------------------------
\* Gold trees: the invariants the oracles assume of the gold graph

HeadOf(g, d) == CHOOSE h \in 0..NumTokens(g) : has_edge(g, h, d)

RECURSIVE Dominates(_, _, _, _)
\* h is x or an ancestor of x, following at most fuel head links
Dominates(g, h, x, fuel) ==
    \/ x = h
    \/ /\ x # 0
       /\ fuel > 0
       /\ Dominates(g, h, HeadOf(g, x), fuel - 1)

\* every real token has exactly one head, the root has none, no cycles
WellFormed(g) ==
    /\ \A d \in 1..NumTokens(g) :
          Cardinality({e \in g : e[2] = d}) = 1
    /\ \A e \in g : e[2] # 0
    /\ \A d \in 1..NumTokens(g) : Dominates(g, 0, d, NumTokens(g))

Min(a, b) == IF a < b THEN a ELSE b
Max(a, b) == IF a < b THEN b ELSE a

\* no crossing arcs: every token between a head and its dependent is a
\* descendant of that head
Projective(g) ==
    \A e \in g :
        \A x \in (Min(e[1], e[2]) + 1)..(Max(e[1], e[2]) - 1) :
            Dominates(g, e[1], x, NumTokens(g))

WellFormedProjective(g) == WellFormed(g) /\ Projective(g)

\* the arcs that occur in some configuration reachable from st by actions
\* valid_action accepts
RECURSIVE Obtainable(_)
Obtainable(st) ==
    Arcs(st) \cup
    UNION {Obtainable(do_action(st, a).state) :
              a \in {x \in AllActions : valid_action(st, x)}}

----------------------------------------------------------------------------
\* Properties

\* C1: in every reachable configuration and for each of the four actions,
\* do_action raises if and only if valid_action rejects the action.
C1_LegalityGating ==
    \A a \in AllActions : do_action(self, a).exc <=> ~valid_action(self, a)

\* C2: valid_action(ARC_LEFT) holds exactly when stack and buffer are
\* non-empty, the stack top is not the root and no arc of the configuration
\* has the stack top as its dependent.
C2_LeftArcValidity ==
    valid_action(self, ARC_LEFT) <=>
        /\ Len(stack) >= 1
        /\ Len(buffer) >= 1
        /\ stack[1].id # 0
        /\ \A e \in Arcs(self) : e[2] # stack[1].id

\* C3: on the path the parse loop follows for a well-formed projective gold
\* tree, the action get_next_action chooses has cost 0 at every step.
C3_CostZeroOnCanonicalPath ==
    (WellFormedProjective(graph) /\ pc = "while" /\ ~done(self)) =>
        action_cost(self, get_next_action(self, graph), graph) = 0

\* C3 witness: the oracle chooses REDUCE in front of a non-empty buffer, the
\* one step whose cost is a count that could be positive.
C3_Witness ==
    /\ WellFormedProjective(graph)
    /\ pc = "while"
    /\ ~done(self)
    /\ steps > 0
    /\ Len(buffer) > 0
    /\ get_next_action(self, graph) = REDUCE
    /\ action_cost(self, REDUCE, graph) = 0

\* C4: for a well-formed projective gold tree over n real tokens the parse
\* loop never proposes an action valid_action rejects, never makes more than
\* 2n transitions, and ends in a configuration where done() holds.
C4_Termination ==
    /\ [](WellFormedProjective(graph) =>
             /\ pc \notin {"break", "except"}
             /\ steps <= 2 * NumTokens(graph))
    /\ [](WellFormedProjective(graph) => <>(pc = "rows" /\ done(self)))

\* C4 witness: the loop has ended on a tree of at least two tokens, having
\* used all 2n transitions.
C4_Witness ==
    /\ WellFormedProjective(graph)
    /\ NumTokens(graph) >= 2
    /\ pc = "rows"
    /\ done(self)
    /\ steps = 2 * NumTokens(graph)

\* the gold tree of "root Bob saw Alice"
ExampleGold == {<<0, 2>>, <<2, 1>>, <<2, 3>>}

\* the first steps transitions of the parse loop were the first steps
\* actions of tr
TraceFollows(tr) == steps <= Len(tr) /\ (steps >= 1 => last = tr[steps])

\* C5 as claimed: the canonical trace of the example is SHIFT, LEFT_ARC,
\* SHIFT, RIGHT_ARC, REDUCE, REDUCE, and the final arcs are (2,1) and (2,3)
\* only.
C5_WorkedExampleClaimed ==
    graph = ExampleGold =>
        /\ TraceFollows(<<SHIFT, ARC_LEFT, SHIFT, ARC_RIGHT, REDUCE, REDUCE>>)
        /\ pc = "rows" => (steps = 6 /\ Arcs(self) = {<<2, 1>>, <<2, 3>>})

\* C5 amended: the canonical trace of the example is SHIFT, LEFT_ARC,
\* RIGHT_ARC, RIGHT_ARC, REDUCE, REDUCE; the third step attaches "saw" to
\* the root and the final arcs are the three gold edges.
C5_WorkedExample ==
    graph = ExampleGold =>
        /\ TraceFollows(<<SHIFT, ARC_LEFT, ARC_RIGHT, ARC_RIGHT, REDUCE, REDUCE>>)
        /\ steps >= 3 => <<0, 2>> \in Arcs(self)
        /\ pc = "rows" =>
              (steps = 6 /\ Arcs(self) = {<<2, 1>>, <<0, 2>>, <<2, 3>>})

\* C5 witness: the parse loop has finished the example sentence.
C5_Witness ==
    /\ graph = ExampleGold
    /\ pc = "rows"
    /\ steps = 6
    /\ stack = <<ArcNode(0)>>

\* the gold arcs still obtainable from st
GoldObtainable(st, g) == g \cap Obtainable(st)

\* C6: for a well-formed projective gold tree, the cost of a valid action is
\* the number of gold arcs obtainable before the action and not after it.
C6_CostIsExact ==
    WellFormedProjective(graph) =>
        \A a \in AllActions :
            valid_action(self, a) =>
                action_cost(self, a, graph) =
                    Cardinality(GoldObtainable(self, graph) \
                                GoldObtainable(do_action(self, a).state, graph))

\* C7: for a well-formed projective gold tree, an action of cost 0 leaves
\* every gold arc that was obtainable still obtainable.
C7_ZeroCostIsSound ==
    WellFormedProjective(graph) =>
        \A a \in AllActions :
            action_cost(self, a, graph) = 0 =>
                GoldObtainable(self, graph) \subseteq
                    GoldObtainable(do_action(self, a).state, graph)

\* C8: action_cost returns the sentinel exactly for the actions valid_action
\* rejects; the cost of a valid action is below the sentinel.
C8_CostSentinel ==
    \A a \in AllActions :
        /\ (action_cost(self, a, graph) = INFEASIBLE) <=> ~valid_action(self, a)
        /\ valid_action(self, a) => action_cost(self, a, graph) < INFEASIBLE

\* C9: applying valid actions only, the root stays on the stack, and a
\* configuration where done() holds has the root as its single stack token.
C9_TerminalIsRootAlone ==
    /\ \E i \in 1..Len(stack) : stack[i].id = 0
    /\ done(self) => stack[1].id = 0

\* C10: applying valid actions only, no arc has the root as its dependent.
C10_RootNeverDependent == \A e \in Arcs(self) : e[2] # 0

\* C10 witness: a left arc has just been added and the root now faces a
\* buffer token, so arc_left would make the root a dependent if it were
\* called.
C10_Witness ==
    /\ Len(relations) > 0
    /\ Len(stack) > 0
    /\ stack[1].id = 0
    /\ Len(buffer) > 0
    /\ ~arc_left(self).exc
    /\ last = ARC_LEFT
    /\ ~raised

\* C11: a call that returns keeps every arc and adds exactly one new arc for
\* ARC_LEFT and ARC_RIGHT and none for SHIFT and REDUCE, so arcs never shrink.
C11_ArcMonotonicity ==
    [][~raised' =>
          /\ Arcs(self) \subseteq Arcs(self)'
          /\ Len(relations') >= Len(relations)
          /\ SubSeq(relations', 1, Len(relations)) = relations
          /\ Cardinality(Arcs(self)' \ Arcs(self)) =
                 IF last' \in {ARC_LEFT, ARC_RIGHT} THEN 1 ELSE 0]_vars

\* C11 witness: two arcs have been added and a REDUCE has just returned.
C11_Witness ==
    /\ Cardinality(Arcs(self)) >= 2
    /\ last = REDUCE
    /\ ~raised

\* the ids of the tokens of a list
Ids(seq) == {seq[i].id : i \in 1..Len(seq)}

\* the ids that are in the buffer or on the stack of st
Placed(st) == Ids(st.buffer) \cup Ids(st.stack)

\* C12: every id occurs at most once in buffer and stack together; the ids
\* placed never grow, and the token a returning ARC_LEFT or REDUCE pops is
\* no longer placed, so a popped token never comes back.
C12_TokenPlacement ==
    /\ [](Cardinality(Placed(self)) = Len(buffer) + Len(stack))
    /\ [][/\ Placed(self)' \subseteq Placed(self)
          /\ (~raised' /\ last' \in {ARC_LEFT, REDUCE}) =>
                 stack[1].id \notin Placed(self)']_vars

\* C12 witness: tokens have been popped by ARC_LEFT and by REDUCE and both
\* lists still hold tokens.
C12_Witness ==
    /\ last = REDUCE
    /\ ~raised
    /\ Len(relations) > 0
    /\ \E e \in Arcs(self) : e[1] > e[2] /\ e[2] \notin Placed(self)
    /\ Len(buffer) > 0
    /\ Len(stack) > 0
    /\ Cardinality(Placed(self)) + 2 <= NumTokens(graph) + 1

\* the list objects an ArcState object refers to
Addresses(o) == {o.buffer, o.stack, o.relations}

\* C13: every configuration ever returned still has the buffer, stack and
\* arcs it was returned with, whatever calls (returning or raising) were
\* made on it or on its successors, and no two configurations share a list.
C13_TransitionsArePure ==
    /\ \A i \in 1..Len(objs) : Deref(heap, objs[i]) = snaps[i]
    /\ \A i, j \in 1..Len(objs) :
          i # j => Addresses(objs[i]) \cap Addresses(objs[j]) = {}

\* C13 witness: three configurations have been returned and the last call
\* on the newest one raised.
C13_Witness ==
    /\ Len(objs) >= 3
    /\ raised
    /\ Len(relations) > 0

\* C14: in a derivation by valid actions that stops at the first terminal
\* configuration, a configuration that is not terminal always has a valid
\* action, no more than 2n transitions are made for n real tokens, and a
\* terminal configuration is reached.
C14_DerivationEnds ==
    /\ [](~done(self) => \E a \in AllActions : valid_action(self, a))
    /\ [](steps <= 2 * NumTokens(graph))
    /\ <>done(self)

\* C14 witness: a derivation over at least two tokens has ended after 2n
\* transitions, with arcs built on the way.
C14_Witness ==
    /\ done(self)
    /\ NumTokens(graph) >= 2
    /\ steps = 2 * NumTokens(graph)
    /\ Len(relations) > 0

\* The decision rule as a function of the stack size, the stack top's id,
\* whether the buffer has a head, that head's id, and the gold graph.
RuleLeft(size, s, hasHead, b, g) == size > 0 /\ hasHead /\ has_edge(g, b, s)

RuleRight(size, s, hasHead, b, g) ==
    /\ size > 0 /\ hasHead
    /\ ~has_edge(g, b, s)
    /\ has_edge(g, s, b)

RuleReduce(size, s, hasHead, b, g) ==
    \/ /\ size > 0 /\ hasHead
       /\ ~has_edge(g, b, s)
       /\ ~has_edge(g, s, b)
       /\ \E e \in g : \/ e[1] < s /\ e[2] = b
                       \/ e[1] = b /\ e[2] < s
    \/ ~hasHead /\ size > 1

DecisionRule(size, s, hasHead, b, g) ==
    CASE RuleLeft(size, s, hasHead, b, g) -> ARC_LEFT
      [] RuleRight(size, s, hasHead, b, g) -> ARC_RIGHT
      [] RuleReduce(size, s, hasHead, b, g) -> REDUCE
      [] OTHER -> SHIFT

\* C15: get_next_action is the decision rule: ARC_LEFT on gold edge (b, s),
\* else ARC_RIGHT on gold edge (s, b), else REDUCE if some k < s.id has a
\* gold edge with b; REDUCE on an empty buffer under a stack of more than
\* one token; SHIFT in every other case.
C15_OracleDecisionRule ==
    get_next_action(self, graph) =
        DecisionRule(Len(stack),
                     IF Len(stack) > 0 THEN stack[1].id ELSE 0,
                     Len(buffer) > 0,
                     IF Len(buffer) > 0 THEN buffer[1].id ELSE 0,
                     graph)

\* C15 witness: more than one token on the stack, a buffer head, and none of
\* the three edge tests holds, so the answer is SHIFT.
C15_Witness ==
    /\ Len(stack) > 1
    /\ Len(buffer) > 0
    /\ ~has_edge(graph, buffer[1].id, stack[1].id)
    /\ ~has_edge(graph, stack[1].id, buffer[1].id)
    /\ \A k \in 0..(stack[1].id - 1) :
          ~has_edge(graph, k, buffer[1].id) /\ ~has_edge(graph, buffer[1].id, k)
    /\ get_next_action(self, graph) = SHIFT

\* C16: a returning SHIFT or ARC_RIGHT moves exactly the buffer head onto
\* the stack top; a returning ARC_LEFT or REDUCE removes exactly the stack
\* top and leaves the buffer; ARC_LEFT adds arc (b, s), ARC_RIGHT adds
\* (s, b), SHIFT and REDUCE leave the arcs.
C16_TransitionEffects ==
    [][~raised' =>
          /\ last' \in {SHIFT, ARC_RIGHT} =>
                /\ buffer' = Tail(buffer)
                /\ stack' = <<buffer[1]>> \o stack
          /\ last' \in {ARC_LEFT, REDUCE} =>
                /\ stack' = Tail(stack)
                /\ buffer' = buffer
          /\ last' = ARC_LEFT =>
                Arcs(self)' = Arcs(self) \cup {<<buffer[1].id, stack[1].id>>}
          /\ last' = ARC_RIGHT =>
                Arcs(self)' = Arcs(self) \cup {<<stack[1].id, buffer[1].id>>}
          /\ last' \in {SHIFT, REDUCE} => relations' = relations]_vars

\* C16 witness: an ARC_RIGHT has just returned on a stack that already held
\* two tokens, with tokens left in the buffer.
C16_Witness ==
    /\ last = ARC_RIGHT
    /\ ~raised
    /\ Len(stack) >= 3
    /\ Len(buffer) >= 1
    /\ relations[Len(relations)] = <<stack[2].id, stack[1].id>>

\* C17: for a well-formed projective gold tree the parse loop ends with the
\* arcs equal to the gold edges, and the head looked up for every real token
\* is its gold head.
C17_CanonicalPathReproducesGold ==
    (WellFormedProjective(graph) /\ pc = "rows") =>
        /\ Arcs(self) = graph
        /\ \A id \in 1..NumTokens(graph) :
              predicted_head(self, id) = HeadOf(graph, id)

\* C17 witness: the loop has ended on a well-formed projective tree of at
\* least three tokens that has a left arc, a dependent of the root and a
\* token that is no dependent of the root.
C17_Witness ==
    /\ WellFormedProjective(graph)
    /\ pc = "rows"
    /\ NumTokens(graph) >= 3
    /\ \E e \in graph : e[1] > e[2]
    /\ \E e \in graph : e[1] = 0
    /\ \E e \in graph : e[1] # 0 /\ e[1] < e[2]

\* C18: applying valid actions only, no token is the dependent of two arcs.
C18_SingleHead ==
    \A i, j \in 1..Len(relations) :
        relations[i][2] = relations[j][2] => i = j

\* C19: buffer ids increase from head to tail, stack ids decrease from top
\* to bottom, every stack id is below every buffer id; so the arc of a
\* returning ARC_LEFT has head > dependent and that of a returning ARC_RIGHT
\* has head < dependent.
C19_SentenceOrder ==
    /\ [](/\ \A i, j \in 1..Len(buffer) : i < j => buffer[i].id < buffer[j].id
          /\ \A i, j \in 1..Len(stack) : i < j => stack[i].id > stack[j].id
          /\ \A i \in 1..Len(stack) : \A j \in 1..Len(buffer) :
                stack[i].id < buffer[j].id)
    /\ [][~raised' =>
             /\ last' = ARC_LEFT =>
                   relations'[Len(relations')][1] > relations'[Len(relations')][2]
             /\ last' = ARC_RIGHT =>
                   relations'[Len(relations')][1] < relations'[Len(relations')][2]]_vars

\* C19 witness: an ARC_LEFT has just returned after an earlier ARC_RIGHT,
\* with two tokens on the stack and a token in the buffer.
C19_Witness ==
    /\ last = ARC_LEFT
    /\ ~raised
    /\ Len(stack) >= 2
    /\ Len(buffer) >= 1
    /\ \E e \in Arcs(self) : e[1] < e[2]
    /\ \E e \in Arcs(self) : e[1] > e[2]

====
